---- MODULE Spec2Model ----
(***************************************************************************)
(* Prologix GPIB-Ethernet bridge communication layer (src/prologix.py).    *)
(*                                                                         *)
(* The session (class Prologix) owns a socket.  Everything it writes to    *)
(* the socket is a line; `wire` is the sequence of lines written so far.   *)
(* A bridge directive is recorded with its name and argument, a command    *)
(* line as "command"; the bytes of the command line written last are the   *)
(* local `send` of send_command, made from its parameter `cmd`.            *)
(* What the socket delivers to recv(1) is chosen by the environment: one   *)
(* byte, a timeout, or b'' (connection closed).  `rx` is the history of    *)
(* the recv outcomes of the read in progress (or just finished), `nrecv`   *)
(* the number of recv calls made so far, `calls` the calls made on the     *)
(* session so far, `call_start` the length of `wire` when the last of      *)
(* them began, `log` the records appended to the diagnostic log since      *)
(* then.  `devices` are the device handles created so far, `query` marks   *)
(* a call made by PrologixDevice.query.  `tasks` and `lock` belong to the  *)
(* callers that share the session from several threads (SpecRace).         *)
(***************************************************************************)
EXTENDS Integers, Sequences, FiniteSets, TLC

VARIABLES pc, current_addr, timeout, wire, cmd, send, calls, call_start,
          received_data, rx, nrecv, result, outcome,
          log, devices, query, tasks, lock, psu

vars == <<pc, current_addr, timeout, wire, cmd, send, calls, call_start,
          received_data, rx, nrecv, result, outcome,
          log, devices, query, tasks, lock, psu>>

\* ------------------------------------------------------------ constants
\* TIMEOUT = 0.1 s and the fast timeout 0.01 s, in milliseconds
TIMEOUT == 100
FAST_TIMEOUT == 10
\* a fresh socket has no timeout (blocking)
BLOCKING == 0
EOT_BREAK_CHAR == 123
NO_ADDR == -1

LF == 10
CR == 13
ESC == 27
PLUS == 43

\* ------------------------------------------------------------ bounds
MaxCalls == 3
MaxCmdLen == 1
MaxEscLen == 3
MaxRx == 5

\* GPIB addresses used by the callers (a subset of 0..30)
Addrs == {2, 5}
\* an ordinary byte ('A')
Ordinary == {65}
\* bytes a command is made of: the four reserved bytes and an ordinary one
CmdBytes == {LF, CR, ESC, PLUS} \cup Ordinary
\* bytes an instrument answers with: an ordinary byte and the marker value
RxBytes == Ordinary \cup {EOT_BREAK_CHAR}

RECURSIVE SeqsUpTo(_, _)
SeqsUpTo(S, n) ==
    IF n = 0 THEN {<<>>}
    ELSE LET shorter == SeqsUpTo(S, n - 1)
         IN  shorter \cup {Append(s, b) : s \in {t \in shorter : Len(t) = n - 1}, b \in S}

\* the commands of the session's callers, and the longer ones given to a
\* fresh session's first send_command
Commands == SeqsUpTo(CmdBytes, MaxCmdLen)
EscCommands == SeqsUpTo(CmdBytes, MaxEscLen)

\* ------------------------------------------------------------ lines on the wire
Line(d, a) == [dir |-> d, arg |-> a]

\* variant: the marker byte is set before marker injection is enabled
Startup_Reordered ==
    << Line("++auto", 0), Line("++eos", 2),
       Line("++eot_char", EOT_BREAK_CHAR), Line("++eot_enable", 1) >>

\* the four directives __init__ sends
Startup ==
    << Line("++auto", 0), Line("++eos", 2),
       Line("++eot_enable", 1), Line("++eot_char", EOT_BREAK_CHAR) >>

ReadEoi == Line("++read eoi", 0)
CommandLine == Line("command", 0)

\* ------------------------------------------------------------ _escape_cmd
\* variants of the reserved set that leave ESC, '+', or CR unescaped
Reserved_NoEsc == {LF, CR, PLUS}
Reserved_NoPlus == {LF, CR, ESC}
Reserved_NoCR == {LF, ESC, PLUS}

\* line 44: b'\n\r\x1b+'
Reserved == {LF, CR, ESC, PLUS}

RECURSIVE _escape_cmd(_)
_escape_cmd(text) ==
    IF text = <<>> THEN <<>>
    ELSE LET ch == Head(text)
         IN  (IF ch \in Reserved THEN <<ESC, ch>> ELSE <<ch>>) \o _escape_cmd(Tail(text))

\* ------------------------------------------------------------ _address_device
\* the session after _address_device(addr): the wire and current_addr
\* variants: current_addr set without the directive written; the directive
\* written without current_addr set
_address_device_Silent(w, cur, addr) ==
    [wire |-> w, current_addr |-> addr]

_address_device_Forgets(w, cur, addr) ==
    [wire |-> Append(w, Line("++addr", addr)), current_addr |-> cur]

_address_device(w, cur, addr) ==
    IF cur # addr
    THEN [wire |-> Append(w, Line("++addr", addr)), current_addr |-> addr]
    ELSE [wire |-> w, current_addr |-> cur]

\* the guarded call at the head of send_command and read_until_eoi
Select(w, cur, addr) ==
    IF cur # addr THEN _address_device(w, cur, addr)
    ELSE [wire |-> w, current_addr |-> cur]

\* ------------------------------------------------------------ recv outcomes
Recv(win, ch) == [ev |-> "recv", win |-> win, ch |-> ch]
Timeouted(win) == [ev |-> "timeout", win |-> win, ch |-> <<>>]

\* variant: the accumulator returned with its marker
StripLast_Keeps(data) == data

\* received_data[:-1]
StripLast(data) == SubSeq(data, 1, Len(data) - 1)

Call(op, addr) == [op |-> op, addr |-> addr]

\* ------------------------------------------------------------ the diagnostic log
\* CommLog.write(tag, data), the tag being "Send to <addr>" or "Recv from <addr>"
LogWrite(tag, addr, data) == [kind |-> "write", tag |-> tag, addr |-> addr, data |-> data]
\* CommLog.event(message)
LogEvent(message) == [kind |-> "event", tag |-> message, addr |-> NO_ADDR, data |-> <<>>]

\* no query in progress; a query that began when the wire had n lines
NoQuery == [active |-> FALSE, start |-> 0, addr |-> NO_ADDR]
QueryFrom(n, addr) == [active |-> TRUE, start |-> n, addr |-> addr]

\* the caller threads that share the session; none is inside a call.
\* A task is a thread's place in the call it makes: its position, the call
\* and its target, and `bad`: whether it has written a command line or a
\* ++read eoi while the bridge had another address selected
Threads == {1, 2}
IdleTask == [pc |-> "idle", op |-> "none", addr |-> NO_ADDR, bad |-> FALSE]
NoTasks == [t \in Threads |-> IdleTask]

\* ------------------------------------------------------------ E363xA: ports and variants
\* class Port; "None" stands for Python's None
Port == {"P6V", "P25V", "N25V", "P8V20A", "P20V10A"}

\* the order in which `for port in Port` (turn_off) visits the members
PortOrder == <<"P6V", "P25V", "N25V", "P8V20A", "P20V10A">>

Variant == {"E3631A", "E3633A"}

\* Variant.has_port; None is in neither list
has_port(variant, port) ==
    IF variant = "E3631A" THEN port \in {"P6V", "P25V", "N25V"}
    ELSE IF variant = "E3633A" THEN port \in {"P8V20A", "P20V10A"}
    ELSE FALSE

\* no driver has been constructed.  Of a driver: the variant found,
\* current_port, the port the instrument has selected (inst), the port named
\* by the last selection command sent (last_sel), and of the latest call its
\* name, the port asked for, current_port as the call found it, the outcome
\* and the commands it gave to dev.send_command, in order (lines)
NoPsu ==
    [pc |-> "new", variant |-> "none", current_port |-> "None", inst |-> "unknown",
     last_sel |-> "None", op |-> "none", port |-> "None", before |-> "None",
     outcome |-> "none", lines |-> <<>>]

\* ------------------------------------------------------------ Init
InitSession ==
    /\ pc = "new"
    /\ current_addr = NO_ADDR
    /\ timeout = BLOCKING
    /\ wire = <<>>
    /\ cmd = <<>>
    /\ send = <<>>
    /\ calls = <<>>
    /\ call_start = 0
    /\ received_data = <<>>
    /\ rx = <<>>
    /\ nrecv = 0
    /\ result = <<>>
    /\ outcome = "none"
    /\ log = <<>>
    /\ devices = {}
    /\ query = NoQuery
    /\ tasks = NoTasks
    /\ psu = NoPsu

\* the callers of Spec make one call at a time and use no lock
Init == InitSession /\ lock = "none"

\* ------------------------------------------------------------ Prologix.__init__
\* connect succeeded: the four directives, then settimeout(TIMEOUT)
\* variant: line 25 takes the first address for selected
__init___Preselected ==
    /\ pc = "new"
    /\ pc' = "idle"
    /\ current_addr' = 2
    /\ wire' = Startup
    /\ timeout' = TIMEOUT
    /\ log' = <<>>
    /\ UNCHANGED <<psu, devices, tasks, lock, query, cmd, send, calls, call_start,
                   received_data, rx, nrecv, result, outcome>>

__init__ ==
    /\ pc = "new"
    /\ pc' = "idle"
    /\ current_addr' = NO_ADDR
    /\ wire' = Startup
    /\ timeout' = TIMEOUT
    /\ log' = <<>>
    /\ UNCHANGED <<psu, devices, tasks, lock, query, cmd, send, calls, call_start,
                   received_data, rx, nrecv, result, outcome>>

\* sock.connect raises: __init__ is left at line 24, no session exists
\* variant: the directives of lines 27-34 are sent although connect raised
ConnectFails_ConfiguresAnyway ==
    /\ pc = "new"
    /\ pc' = "failed"
    /\ outcome' = "OSError"
    /\ wire' = Startup
    /\ UNCHANGED <<psu, devices, tasks, lock, query, log, current_addr, timeout, cmd, send, calls, call_start,
                   received_data, rx, nrecv, result>>

\* line 24 raises: the constructor is left at once, nothing after it runs
ConnectFails ==
    /\ pc = "new"
    /\ pc' = "failed"
    /\ outcome' = "OSError"
    /\ UNCHANGED <<psu, devices, tasks, lock, query, log, current_addr, timeout, wire, cmd, send, calls, call_start,
                   received_data, rx, nrecv, result>>

\* ------------------------------------------------------------ send_command
\* PrologixDevice.__init__: the handle's two fields
PrologixDevice(comm, addr) == [comm |-> comm, addr |-> addr]

\* the callers take their handles, one for each address, before they make
\* their first call (as the instrument drivers, which are given their handle
\* when they are constructed)
AllDevices == {PrologixDevice("session", addr) : addr \in Addrs}

CanCall == pc = "idle" /\ devices = AllDevices /\ Len(calls) < MaxCalls

\* variant: the send waits for one byte of acknowledgement
DoSend_AwaitsReply(text, addr, next) ==
    LET s == Select(wire, current_addr, addr)
    IN  /\ current_addr' = s.current_addr
        /\ cmd' = text
        /\ send' = _escape_cmd(text) \o <<LF>>
        /\ wire' = Append(s.wire, CommandLine)
        /\ calls' = Append(calls, Call("send_command", addr))
        /\ call_start' = Len(wire)
        /\ pc' = next
        /\ received_data' = <<>>
        /\ rx' = <<>>
        /\ result' = <<>>
        /\ outcome' = "return"
        /\ log' = <<LogWrite("Send to", s.current_addr, _escape_cmd(text) \o <<LF>>)>>
        /\ query' = IF next = "query" THEN QueryFrom(Len(wire), addr) ELSE NoQuery
        /\ nrecv' = nrecv + 1
        /\ UNCHANGED <<psu, devices, tasks, lock, timeout>>

\* lines 63-67: select, escape, log, write
DoSend(text, addr, next) ==
    LET s == Select(wire, current_addr, addr)
    IN  /\ current_addr' = s.current_addr
        /\ cmd' = text
        /\ send' = _escape_cmd(text) \o <<LF>>
        /\ wire' = Append(s.wire, CommandLine)
        /\ calls' = Append(calls, Call("send_command", addr))
        /\ call_start' = Len(wire)
        /\ pc' = next
        /\ received_data' = <<>>
        /\ rx' = <<>>
        /\ result' = <<>>
        /\ outcome' = "return"
        /\ log' = <<LogWrite("Send to", s.current_addr, _escape_cmd(text) \o <<LF>>)>>
        /\ query' = IF next = "query" THEN QueryFrom(Len(wire), addr) ELSE NoQuery
        /\ UNCHANGED <<psu, devices, tasks, lock, timeout, nrecv>>

send_command(text, addr) ==
    /\ CanCall
    /\ DoSend(text, addr, "idle")

\* ------------------------------------------------------------ read_until_eoi
\* variant: the accumulator is not made fresh at line 78
DoReadStart_KeepsData(addr) ==
    LET s == Select(wire, current_addr, addr)
    IN  /\ current_addr' = s.current_addr
        /\ wire' = Append(s.wire, ReadEoi)
        /\ calls' = Append(calls, Call("read_until_eoi", addr))
        /\ call_start' = Len(wire)
        /\ rx' = <<>>
        /\ result' = <<>>
        /\ cmd' = <<>>
        /\ send' = <<>>
        /\ outcome' = "none"
        /\ pc' = "main"
        /\ log' = <<>>
        /\ query' = IF pc = "query" THEN query ELSE NoQuery
        /\ UNCHANGED <<psu, devices, tasks, lock, timeout, nrecv, received_data>>

\* lines 73-80: select, fresh accumulator, the first ++read eoi
DoReadStart(addr) ==
    LET s == Select(wire, current_addr, addr)
    IN  /\ current_addr' = s.current_addr
        /\ wire' = Append(s.wire, ReadEoi)
        /\ calls' = Append(calls, Call("read_until_eoi", addr))
        /\ call_start' = Len(wire)
        /\ received_data' = <<>>
        /\ rx' = <<>>
        /\ result' = <<>>
        /\ cmd' = <<>>
        /\ send' = <<>>
        /\ outcome' = "none"
        /\ pc' = "main"
        /\ log' = <<>>
        /\ query' = IF pc = "query" THEN query ELSE NoQuery
        /\ UNCHANGED <<psu, devices, tasks, lock, timeout, nrecv>>

read_until_eoi(addr) ==
    /\ CanCall
    /\ DoReadStart(addr)

\* line 83 returns a byte: lines 89-95
\* a recv of this read has returned b'': the peer has closed the connection,
\* and every later recv on the socket returns b'' at once
PeerClosed == \E i \in 1..Len(rx) : rx[i].ev = "recv" /\ rx[i].ch = <<>>

MainRecvByte(b) ==
    /\ pc = "main"
    /\ ~PeerClosed
    /\ nrecv < MaxRx
    /\ nrecv' = nrecv + 1
    /\ rx' = Append(rx, Recv("main", <<b>>))
    /\ received_data' = received_data \o <<b>>
    /\ IF b = EOT_BREAK_CHAR
       THEN /\ pc' = "sec"
            /\ timeout' = FAST_TIMEOUT
            /\ log' = log \o <<LogWrite("Recv from", current_addr, <<b>>),
                              LogEvent("Potential EOT break")>>
       ELSE /\ pc' = "main"
            /\ log' = Append(log, LogWrite("Recv from", current_addr, <<b>>))
            /\ UNCHANGED timeout
    /\ UNCHANGED <<psu, devices, tasks, lock, query, current_addr, wire, cmd, send, calls, call_start, result, outcome>>

\* variant: the TimeoutError of line 83 left uncaught
MainRecvTimeout_Raises ==
    /\ pc = "main"
    /\ ~PeerClosed
    /\ nrecv < MaxRx
    /\ nrecv' = nrecv + 1
    /\ rx' = Append(rx, Timeouted("main"))
    /\ pc' = "idle"
    /\ outcome' = "TimeoutError"
    /\ UNCHANGED <<psu, devices, tasks, lock, query, log, current_addr, timeout, wire, cmd, send, calls, call_start,
                   received_data, result>>

\* variant: the read gives up at its third timeout and returns what it has
MainRecvTimeout_Capped ==
    /\ pc = "main"
    /\ ~PeerClosed
    /\ nrecv < MaxRx
    /\ nrecv' = nrecv + 1
    /\ rx' = Append(rx, Timeouted("main"))
    /\ IF Len(rx) >= 2
       THEN /\ pc' = "idle"
            /\ outcome' = "return"
            /\ result' = received_data
            /\ UNCHANGED <<wire, log>>
       ELSE /\ pc' = "main"
            /\ wire' = Append(wire, ReadEoi)
            /\ log' = Append(log, LogEvent("Timeouted. Issuing another ++read"))
            /\ UNCHANGED <<result, outcome>>
    /\ UNCHANGED <<psu, devices, tasks, lock, query, current_addr, timeout, cmd, send,
                   calls, call_start, received_data>>

\* line 83 raises TimeoutError: lines 84-88
MainRecvTimeout ==
    /\ pc = "main"
    /\ ~PeerClosed
    /\ nrecv < MaxRx
    /\ nrecv' = nrecv + 1
    /\ rx' = Append(rx, Timeouted("main"))
    /\ wire' = Append(wire, ReadEoi)
    /\ log' = Append(log, LogEvent("Timeouted. Issuing another ++read"))
    /\ pc' = "main"
    /\ UNCHANGED <<psu, devices, tasks, lock, query, current_addr, timeout, cmd, send, calls, call_start,
                   received_data, result, outcome>>

\* line 83 returns b'' (connection closed): ch[0] at line 92 raises IndexError
\* variant: b'' ends the read as a timeout in the window does
MainRecvClosed_ReturnsPartial ==
    /\ pc = "main"
    /\ nrecv < MaxRx
    /\ nrecv' = nrecv + 1
    /\ rx' = Append(rx, Recv("main", <<>>))
    /\ pc' = "idle"
    /\ outcome' = "return"
    /\ result' = received_data
    /\ log' = Append(log, LogWrite("Recv from", current_addr, <<>>))
    /\ UNCHANGED <<psu, devices, tasks, lock, query, current_addr, timeout, wire, cmd, send, calls, call_start,
                   received_data>>

MainRecvClosed ==
    /\ pc = "main"
    /\ nrecv < MaxRx
    /\ nrecv' = nrecv + 1
    /\ rx' = Append(rx, Recv("main", <<>>))
    /\ pc' = "idle"
    /\ outcome' = "IndexError"
    /\ log' = Append(log, LogWrite("Recv from", current_addr, <<>>))
    /\ UNCHANGED <<psu, devices, tasks, lock, query, current_addr, timeout, wire, cmd, send, calls, call_start,
                   received_data, result>>

\* variant: no finally clause on the path where line 96 returns a byte
SecRecvByte_NoRestore(b) ==
    /\ pc = "sec"
    /\ nrecv < MaxRx
    /\ nrecv' = nrecv + 1
    /\ rx' = Append(rx, Recv("sec", <<b>>))
    /\ received_data' = received_data \o <<b>>
    /\ log' = log \o <<LogEvent("Fake EOT, continuing"),
                      LogWrite("Recv from", current_addr, <<b>>)>>
    /\ pc' = "main"
    /\ UNCHANGED <<psu, devices, tasks, lock, query, current_addr, timeout, wire, cmd, send, calls, call_start,
                   result, outcome>>

\* line 96 returns a byte: lines 97-99, then the finally clause
\* variant: line 98 missing, the byte of the secondary window is not logged
SecRecvByte_Unlogged(b) ==
    /\ pc = "sec"
    /\ nrecv < MaxRx
    /\ nrecv' = nrecv + 1
    /\ rx' = Append(rx, Recv("sec", <<b>>))
    /\ received_data' = received_data \o <<b>>
    /\ log' = Append(log, LogEvent("Fake EOT, continuing"))
    /\ timeout' = TIMEOUT
    /\ pc' = "main"
    /\ UNCHANGED <<psu, devices, tasks, lock, query, current_addr, wire, cmd, send, calls, call_start, result, outcome>>

SecRecvByte(b) ==
    /\ pc = "sec"
    /\ nrecv < MaxRx
    /\ nrecv' = nrecv + 1
    /\ rx' = Append(rx, Recv("sec", <<b>>))
    /\ received_data' = received_data \o <<b>>
    /\ log' = log \o <<LogEvent("Fake EOT, continuing"),
                      LogWrite("Recv from", current_addr, <<b>>)>>
    /\ timeout' = TIMEOUT
    /\ pc' = "main"
    /\ UNCHANGED <<psu, devices, tasks, lock, query, current_addr, wire, cmd, send, calls, call_start, result, outcome>>

\* line 96 returns b'': appended as nothing, then the finally clause
SecRecvClosed ==
    /\ pc = "sec"
    /\ nrecv < MaxRx
    /\ nrecv' = nrecv + 1
    /\ rx' = Append(rx, Recv("sec", <<>>))
    /\ log' = log \o <<LogEvent("Fake EOT, continuing"),
                      LogWrite("Recv from", current_addr, <<>>)>>
    /\ timeout' = TIMEOUT
    /\ pc' = "main"
    /\ UNCHANGED <<psu, devices, tasks, lock, query, current_addr, wire, cmd, send, calls, call_start,
                   received_data, result, outcome>>

\* line 96 raises TimeoutError: lines 100-103, then the finally clause
SecRecvTimeout ==
    /\ pc = "sec"
    /\ nrecv < MaxRx
    /\ nrecv' = nrecv + 1
    /\ rx' = Append(rx, Timeouted("sec"))
    /\ result' = StripLast(received_data)
    /\ outcome' = "return"
    /\ log' = Append(log, LogEvent("EOT break was real"))
    /\ timeout' = TIMEOUT
    /\ pc' = "idle"
    /\ UNCHANGED <<psu, devices, tasks, lock, query, current_addr, wire, cmd, send, calls, call_start, received_data>>

\* ------------------------------------------------------------ PrologixDevice
\* Prologix.device(addr): a new handle bound to (this session, addr)
device(addr) ==
    /\ pc = "idle"
    /\ PrologixDevice("session", addr) \notin devices
    /\ devices' = devices \cup {PrologixDevice("session", addr)}
    /\ UNCHANGED <<pc, current_addr, timeout, wire, cmd, send, calls, call_start,
                   received_data, rx, nrecv, result, outcome, log, query, tasks, lock, psu>>

\* lines 150-151
PrologixDevice_send_command(h, text) == send_command(text, h.addr)

\* lines 153-154
PrologixDevice_read_until_eoi(h) == read_until_eoi(h.addr)

\* variant: the query's send goes to another address than the handle's
PrologixDevice_query_OtherAddr(h, text) ==
    /\ CanCall
    /\ \E a \in Addrs \ {h.addr} : DoSend(text, a, "query")

\* query, line 157: the send; the read of line 158 follows
PrologixDevice_query(h, text) ==
    /\ CanCall
    /\ DoSend(text, h.addr, "query")

\* variant: the read of line 158 goes to another address than the send
QueryRead_OtherAddr ==
    /\ pc = "query"
    /\ \E a \in Addrs \ {query.addr} : DoReadStart(a)

\* query, line 158: self.comm.read_until_eoi(self.addr)
QueryRead ==
    /\ pc = "query"
    /\ DoReadStart(query.addr)

\* ------------------------------------------------------------ Next
Next ==
    \/ __init__
    \/ ConnectFails
    \/ \E text \in Commands, addr \in Addrs : send_command(text, addr)
    \/ \E addr \in Addrs : read_until_eoi(addr)
    \/ \E addr \in Addrs : device(addr)
    \/ \E h \in devices, text \in Commands : PrologixDevice_send_command(h, text)
    \/ \E h \in devices : PrologixDevice_read_until_eoi(h)
    \/ \E b \in RxBytes : MainRecvByte(b)
    \/ MainRecvTimeout
    \/ MainRecvClosed
    \/ \E b \in RxBytes : SecRecvByte(b)
    \/ SecRecvClosed
    \/ SecRecvTimeout
    \/ \E h \in devices, text \in Commands : PrologixDevice_query(h, text)
    \/ QueryRead

Spec == Init /\ [][Next]_vars

\* ------------------------------------------------------------ a first send
\* the first send_command of a fresh session, for any command of EscCommands
FirstSend(text, addr) ==
    /\ calls = <<>>
    /\ send_command(text, addr)

NextSend ==
    \/ __init__
    \/ \E addr \in Addrs : device(addr)
    \/ \E text \in EscCommands, addr \in Addrs : FirstSend(text, addr)

SpecSend == Init /\ [][NextSend]_vars

\* ------------------------------------------------------------ a failing select
\* variant: current_addr is set although the send of line 54 raised
DoSelectRaises_SetsAddr(op, text, addr) ==
    /\ CanCall
    /\ current_addr # addr
    /\ current_addr' = addr
    /\ calls' = Append(calls, Call(op, addr))
    /\ call_start' = Len(wire)
    /\ cmd' = text
    /\ send' = <<>>
    /\ received_data' = <<>>
    /\ rx' = <<>>
    /\ result' = <<>>
    /\ outcome' = "SendError"
    /\ log' = <<>>
    /\ query' = NoQuery
    /\ UNCHANGED <<pc, wire, timeout, nrecv, devices, tasks, lock, psu>>

\* a call whose target is not the selected address, and the sock.send of
\* line 54 raises: line 55 and the rest of the call (lines 65-67, or 78-106)
\* do not run, the exception leaves the call
DoSelectRaises(op, text, addr) ==
    /\ CanCall
    /\ current_addr # addr
    /\ calls' = Append(calls, Call(op, addr))
    /\ call_start' = Len(wire)
    /\ cmd' = text
    /\ send' = <<>>
    /\ received_data' = <<>>
    /\ rx' = <<>>
    /\ result' = <<>>
    /\ outcome' = "SendError"
    /\ log' = <<>>
    /\ query' = NoQuery
    /\ UNCHANGED <<pc, current_addr, wire, timeout, nrecv, devices, tasks, lock, psu>>

send_command_SelectRaises(text, addr) == DoSelectRaises("send_command", text, addr)

read_until_eoi_SelectRaises(addr) == DoSelectRaises("read_until_eoi", <<>>, addr)

\* the session with a transport whose send can fail at the select; a read
\* that has started is not followed further
NextFail ==
    \/ __init__
    \/ \E addr \in Addrs : device(addr)
    \/ \E text \in Commands, addr \in Addrs : send_command(text, addr)
    \/ \E addr \in Addrs : read_until_eoi(addr)
    \/ \E text \in Commands, addr \in Addrs : send_command_SelectRaises(text, addr)
    \/ \E addr \in Addrs : read_until_eoi_SelectRaises(addr)

SpecFail == Init /\ [][NextFail]_vars

\* ------------------------------------------------------------ E363xA
\* The driver is followed at its device handle: what it gives to
\* dev.send_command, in order.  The number formatted into a VOLT or CURR
\* command is not followed.
sessionVars == <<pc, current_addr, timeout, wire, cmd, send, calls, call_start,
                 received_data, rx, nrecv, result, outcome,
                 log, devices, query, tasks, lock>>

\* the answers to *IDN? tried: the two models of the family and another one
Idns == {"HEWLETT-PACKARD,E3631A", "HEWLETT-PACKARD,E3633A", "HEWLETT-PACKARD,E3632A"}

\* a command given to dev.send_command, with the port the call asked for,
\* the port the instrument has selected when it gets the command, and
\* current_port as _set_port found it
Command(name, arg, want, at, before) ==
    [cmd |-> name, arg |-> arg, want |-> want, at |-> at, before |-> before]

\* lines 105-110: the selection command for a port
SelectionOf(port) ==
    IF port \in {"P6V", "P25V", "N25V"} THEN [cmd |-> "INST:SEL", arg |-> port]
    ELSE IF port = "P20V10A" THEN [cmd |-> "VOLT:RANG", arg |-> "P20V"]
    ELSE [cmd |-> "VOLT:RANG", arg |-> "P8V"]

\* the port a selection command names to the instrument
PortNamed(sel) ==
    IF sel.cmd = "INST:SEL" THEN sel.arg
    ELSE IF sel.arg = "P20V" THEN "P20V10A"
    ELSE "P8V20A"

IsSelection(line) == line.cmd \in {"INST:SEL", "VOLT:RANG"}

\* E363xA.__init__: *IDN? is asked; the instrument is left on the port it
\* had selected, any one of its ports
E363xA__init__(idn, inst) ==
    /\ psu.pc = "new"
    /\ IF idn = "HEWLETT-PACKARD,E3631A" \/ idn = "HEWLETT-PACKARD,E3633A"
       THEN LET variant == IF idn = "HEWLETT-PACKARD,E3631A" THEN "E3631A" ELSE "E3633A"
            IN  /\ has_port(variant, inst)
                /\ psu' = [psu EXCEPT !.pc = "ready", !.variant = variant,
                                       !.current_port = "None", !.inst = inst,
                                       !.op = "__init__", !.outcome = "return"]
       ELSE /\ inst = "unknown"
            /\ psu' = [psu EXCEPT !.pc = "failed", !.op = "__init__", !.outcome = "ValueError"]
    /\ UNCHANGED sessionVars

\* _set_port(port) on the driver p: whether it raised, the selection command
\* it sent (if any), and current_port and the instrument's port after it
_set_port(p, port) ==
    IF port = p.current_port
    THEN [raised |-> FALSE, sent |-> <<>>, current_port |-> p.current_port, inst |-> p.inst]
    ELSE IF ~has_port(p.variant, port)
    THEN [raised |-> TRUE, sent |-> <<>>, current_port |-> p.current_port, inst |-> p.inst]
    ELSE LET sel == SelectionOf(port)
         IN  [raised |-> FALSE,
              sent |-> <<Command(sel.cmd, sel.arg, port, p.inst, p.current_port)>>,
              current_port |-> port,
              inst |-> PortNamed(sel)]

\* self._set_port(port); self.dev.send_command(name) on the driver p
PortCommand(p, name, port) ==
    LET s == _set_port(p, port)
    IN  IF s.raised
        THEN [p EXCEPT !.outcome = "ValueError"]
        ELSE [p EXCEPT !.current_port = s.current_port,
                       !.inst = s.inst,
                       !.last_sel = IF s.sent = <<>> THEN @ ELSE s.inst,
                       !.lines = @ \o s.sent \o <<Command(name, "", port, s.inst, p.current_port)>>,
                       !.outcome = "return"]

\* the driver as a call finds it
Entering(op, port) ==
    [psu EXCEPT !.op = op, !.port = port, !.before = psu.current_port,
                !.lines = <<>>, !.outcome = "none"]

output_on(port) ==
    /\ psu.pc = "ready"
    /\ psu' = PortCommand(Entering("output_on", port), "OUTP:STAT ON", port)
    /\ UNCHANGED sessionVars

output_off(port) ==
    /\ psu.pc = "ready"
    /\ psu' = PortCommand(Entering("output_off", port), "OUTP:STAT OFF", port)
    /\ UNCHANGED sessionVars

\* output_off for each port the variant has, in the order of Port
RECURSIVE TurnOffFrom(_, _)
TurnOffFrom(p, i) ==
    IF i > Len(PortOrder) THEN p
    ELSE IF has_port(p.variant, PortOrder[i])
         THEN TurnOffFrom(PortCommand(p, "OUTP:STAT OFF", PortOrder[i]), i + 1)
         ELSE TurnOffFrom(p, i + 1)

turn_off ==
    /\ psu.pc = "ready"
    /\ psu' = TurnOffFrom(Entering("turn_off", "None"), 1)
    /\ UNCHANGED sessionVars

set_voltage(port) ==
    /\ psu.pc = "ready"
    /\ psu' = PortCommand(Entering("set_voltage", port), "VOLT", port)
    /\ UNCHANGED sessionVars

\* port is None when the caller leaves it out (line 167)
set_current(port) ==
    /\ psu.pc = "ready"
    /\ psu' = PortCommand(Entering("set_current", port), "CURR", port)
    /\ UNCHANGED sessionVars

NextE363xA ==
    \/ \E idn \in Idns, inst \in Port \cup {"unknown"} : E363xA__init__(idn, inst)
    \/ \E port \in Port : output_on(port)
    \/ \E port \in Port : output_off(port)
    \/ turn_off
    \/ \E port \in Port : set_voltage(port)
    \/ \E port \in Port \cup {"None"} : set_current(port)

SpecE363xA == Init /\ [][NextE363xA]_vars

\* the address the bridge has selected: the argument of the last ++addr line
RECURSIVE Selected(_)
Selected(w) ==
    IF w = <<>> THEN NO_ADDR
    ELSE IF w[Len(w)].dir = "++addr" THEN w[Len(w)].arg
    ELSE Selected(SubSeq(w, 1, Len(w) - 1))

\* ------------------------------------------------------------ threads sharing the session
\* Two threads call send_command and read_until_eoi on the one session,
\* each statement of a call being a step of its own.  With lock = "none" the
\* threads call freely; otherwise they take a mutex for the length of each
\* call ("free" / "held").
MaxRaceCalls == 2
MaxRaceRetries == 1

InitRace == InitSession /\ lock \in {"none", "free"}

raceFrame == <<pc, timeout, cmd, send, call_start, received_data, rx, result,
               outcome, log, devices, query, psu>>

Goto(t, where) == [tasks EXCEPT ![t].pc = where]

\* the address selected on the bridge differs from the task's target
Misaddressed(t) == Selected(wire) # tasks[t].addr

\* a thread enters send_command(_, addr) or read_until_eoi(addr)
T_Call(t, op, addr) ==
    /\ pc = "idle"
    /\ tasks[t].pc = "idle"
    /\ Len(calls) < MaxRaceCalls
    /\ lock \in {"none", "free"}
    /\ lock' = IF lock = "free" THEN "held" ELSE lock
    /\ tasks' = [tasks EXCEPT ![t] = [pc |-> "check", op |-> op, addr |-> addr, bad |-> FALSE]]
    /\ calls' = Append(calls, Call(op, addr))
    /\ UNCHANGED <<current_addr, wire, nrecv, raceFrame>>

\* line 63 / line 73: if self.current_addr != addr
T_Check(t) ==
    /\ tasks[t].pc = "check"
    /\ tasks' = Goto(t, IF current_addr # tasks[t].addr THEN "check2" ELSE "write")
    /\ UNCHANGED <<current_addr, wire, calls, nrecv, lock, raceFrame>>

\* line 53, in _address_device: if self.current_addr != addr
T_Check2(t) ==
    /\ tasks[t].pc = "check2"
    /\ tasks' = Goto(t, IF current_addr # tasks[t].addr THEN "addr_send" ELSE "write")
    /\ UNCHANGED <<current_addr, wire, calls, nrecv, lock, raceFrame>>

\* variant: line 54 missing
T_AddrSend_Silent(t) ==
    /\ tasks[t].pc = "addr_send"
    /\ tasks' = Goto(t, "addr_set")
    /\ UNCHANGED <<current_addr, wire, calls, nrecv, lock, raceFrame>>

\* line 54: the ++addr directive
T_AddrSend(t) ==
    /\ tasks[t].pc = "addr_send"
    /\ wire' = Append(wire, Line("++addr", tasks[t].addr))
    /\ tasks' = Goto(t, "addr_set")
    /\ UNCHANGED <<current_addr, calls, nrecv, lock, raceFrame>>

\* line 55: self.current_addr = addr
T_AddrSet(t) ==
    /\ tasks[t].pc = "addr_set"
    /\ current_addr' = tasks[t].addr
    /\ tasks' = Goto(t, "write")
    /\ UNCHANGED <<wire, calls, nrecv, lock, raceFrame>>

\* send_command, lines 65-67: the command line is written and the call returns
T_WriteCommand(t) ==
    /\ tasks[t].pc = "write"
    /\ tasks[t].op = "send_command"
    /\ wire' = Append(wire, CommandLine)
    /\ tasks' = [tasks EXCEPT ![t].pc = "idle", ![t].bad = @ \/ Misaddressed(t)]
    /\ lock' = IF lock = "held" THEN "free" ELSE lock
    /\ UNCHANGED <<current_addr, calls, nrecv, raceFrame>>

\* read_until_eoi, lines 78-80: the first ++read eoi
T_WriteRead(t) ==
    /\ tasks[t].pc = "write"
    /\ tasks[t].op = "read_until_eoi"
    /\ wire' = Append(wire, ReadEoi)
    /\ tasks' = [tasks EXCEPT ![t].pc = "recv", ![t].bad = @ \/ Misaddressed(t)]
    /\ UNCHANGED <<current_addr, calls, nrecv, lock, raceFrame>>

\* read_until_eoi, lines 83-88: recv times out, ++read eoi again
T_RecvTimeout(t) ==
    /\ tasks[t].pc = "recv"
    /\ nrecv < MaxRaceRetries
    /\ nrecv' = nrecv + 1
    /\ wire' = Append(wire, ReadEoi)
    /\ tasks' = [tasks EXCEPT ![t].bad = @ \/ Misaddressed(t)]
    /\ UNCHANGED <<current_addr, calls, lock, raceFrame>>

\* read_until_eoi, lines 83-106: the answer arrives and the read returns;
\* nothing more is written (the bytes received are not followed here)
T_ReadReturns(t) ==
    /\ tasks[t].pc = "recv"
    /\ tasks' = Goto(t, "idle")
    /\ lock' = IF lock = "held" THEN "free" ELSE lock
    /\ UNCHANGED <<current_addr, wire, calls, nrecv, raceFrame>>

NextRace ==
    \/ __init__
    \/ \E t \in Threads, addr \in Addrs : T_Call(t, "send_command", addr)
    \/ \E t \in Threads, addr \in Addrs : T_Call(t, "read_until_eoi", addr)
    \/ \E t \in Threads : T_Check(t)
    \/ \E t \in Threads : T_Check2(t)
    \/ \E t \in Threads : T_AddrSend(t)
    \/ \E t \in Threads : T_AddrSet(t)
    \/ \E t \in Threads : T_WriteCommand(t)
    \/ \E t \in Threads : T_WriteRead(t)
    \/ \E t \in Threads : T_RecvTimeout(t)
    \/ \E t \in Threads : T_ReadReturns(t)

SpecRace == InitRace /\ [][NextRace]_vars

\* ============================================================ properties
Marker == EOT_BREAK_CHAR

\* a recv outcome that is one byte
IsByte(e) == e.ev = "recv" /\ Len(e.ch) = 1

\* the read's recv outcomes are n >= 1 bytes followed by exactly one timeout
BytesThenTimeout ==
    /\ Len(rx) >= 2
    /\ \A i \in 1..(Len(rx) - 1) : IsByte(rx[i])
    /\ rx[Len(rx)].ev = "timeout"

\* the bytes delivered before that timeout
Delivered == [i \in 1..(Len(rx) - 1) |-> rx[i].ch[1]]

Returned(value) == pc = "idle" /\ outcome = "return" /\ result = value

\* the lines written during the call in progress (or just finished): those
\* after the wire as it was when the call began
CallLines == SubSeq(wire, call_start + 1, Len(wire))

RECURSIVE CountLines(_, _)
CountLines(w, l) ==
    IF w = <<>> THEN 0
    ELSE (IF Head(w) = l THEN 1 ELSE 0) + CountLines(Tail(w), l)

RECURSIVE CountDir(_, _)
CountDir(w, d) ==
    IF w = <<>> THEN 0
    ELSE (IF Head(w).dir = d THEN 1 ELSE 0) + CountDir(Tail(w), d)

\* ------------------------------------------------------------ C1
\* C1: when the socket delivers a payload without marker byte, then one
\* marker byte, and the next recv times out, read_until_eoi has returned
\* exactly the payload.
GenuineEnd ==
    /\ BytesThenTimeout
    /\ Delivered[Len(rx) - 1] = Marker
    /\ \A i \in 1..(Len(rx) - 2) : Delivered[i] # Marker

C1_GenuineEnd ==
    GenuineEnd => Returned(SubSeq(Delivered, 1, Len(rx) - 2))

C1_Witness ==
    /\ GenuineEnd
    /\ Len(rx) = 4
    /\ Returned(<<65, 65>>)

\* ------------------------------------------------------------ C2
\* C2: when the socket delivers p1, a marker, a non-empty p2, a marker, and
\* the next recv times out, read_until_eoi has returned p1 + marker + p2.
FalsePositive ==
    /\ BytesThenTimeout
    /\ Delivered[Len(rx) - 1] = Marker
    /\ \E j \in 1..(Len(rx) - 3) : Delivered[j] = Marker

C2_FalsePositive ==
    FalsePositive => Returned(SubSeq(Delivered, 1, Len(rx) - 2))

\* ------------------------------------------------------------ C3
\* C3: when the byte received in the secondary window is the marker and the
\* recv after it times out, read_until_eoi has returned the accumulator
\* without that last marker.
MarkerInWindowThenTimeout ==
    /\ Len(rx) >= 2
    /\ rx[Len(rx) - 1] = Recv("sec", <<Marker>>)
    /\ rx[Len(rx)].ev = "timeout"

C3_ConsecutiveMarkers ==
    MarkerInWindowThenTimeout => Returned(StripLast(received_data))

\* ------------------------------------------------------------ C4
\* C4: when the socket times out N times before any byte, then delivers a
\* payload and a marker, and the next recv times out, read_until_eoi has
\* written ++read eoi exactly N+1 times and has returned the payload.
\* the number of timeouts at the head of rx
RECURSIVE LeadingTimeouts(_)
LeadingTimeouts(r) ==
    IF r = <<>> \/ Head(r).ev # "timeout" THEN 0
    ELSE 1 + LeadingTimeouts(Tail(r))

StallThenAnswer ==
    LET n == LeadingTimeouts(rx)
    IN  /\ Len(rx) >= n + 2
        /\ \A i \in (n + 1)..(Len(rx) - 1) : IsByte(rx[i])
        /\ rx[Len(rx) - 1].ch = <<Marker>>
        /\ rx[Len(rx)].ev = "timeout"

C4_RetryOnStall ==
    StallThenAnswer =>
        LET n == LeadingTimeouts(rx)
        IN  /\ CountLines(CallLines, ReadEoi) = n + 1
            /\ Returned([i \in 1..(Len(rx) - n - 2) |-> rx[n + i].ch[1]])

\* ------------------------------------------------------------ C5
\* C5: every command line and every ++read eoi is written while the last
\* ++addr line on the wire names the target address of the call writing it.
C5_AddressingInvariant ==
    (wire # <<>> /\ wire[Len(wire)].dir \in {"command", "++read eoi"}) =>
        /\ calls # <<>>
        /\ Selected(wire) = calls[Len(calls)].addr

\* ++read eoi re-issued after a timeout, in a read that had to change the address
C5_Witness ==
    /\ Len(calls) = 2
    /\ calls[1] = Call("send_command", 5)
    /\ calls[2] = Call("read_until_eoi", 2)
    /\ rx = <<Timeouted("main")>>
    /\ wire[Len(wire)] = ReadEoi
    /\ Selected(wire) = 2

\* ------------------------------------------------------------ C6
\* C6: a call writes the ++addr directive (once, naming its target, before
\* its own line) exactly when its target differs from the previous call's
\* target, and always when it is the first call; nothing else writes one.
\* send(5), send(5), send(2) writes: ++addr 5, command, command, ++addr 2,
\* command.
C6_Step ==
    IF calls' # calls
    THEN LET target == calls'[Len(calls')].addr
         IN  IF calls = <<>> \/ calls[Len(calls)].addr # target
             THEN /\ CountDir(wire', "++addr") = CountDir(wire, "++addr") + 1
                  /\ wire'[Len(wire) + 1] = Line("++addr", target)
             ELSE CountDir(wire', "++addr") = CountDir(wire, "++addr")
    ELSE CountDir(wire', "++addr") = CountDir(wire, "++addr")

C6_Scenario ==
    calls = <<Call("send_command", 5), Call("send_command", 5), Call("send_command", 2)>>
        => wire = Startup \o <<Line("++addr", 5), CommandLine, CommandLine,
                              Line("++addr", 2), CommandLine>>

C6_IdempotentAddressing == [][C6_Step]_vars /\ []C6_Scenario

C6_Witness ==
    /\ calls = <<Call("send_command", 5), Call("send_command", 5), Call("send_command", 2)>>
    /\ CountDir(wire, "++addr") = 2
    /\ current_addr = 2

\* ------------------------------------------------------------ C7
\* the bridge's unescaping: an ESC is dropped and the byte after it is taken
\* literally
RECURSIVE Unescape(_)
Unescape(buf) ==
    IF buf = <<>> THEN <<>>
    ELSE IF Head(buf) = 27 /\ Len(buf) >= 2
         THEN <<buf[2]>> \o Unescape(SubSeq(buf, 3, Len(buf)))
         ELSE <<Head(buf)>> \o Unescape(Tail(buf))

\* C7: unescaping _escape_cmd(x) gives x back, and no other command has the
\* same escaped form.
C7_RoundTrip ==
    (calls # <<>>) =>
        /\ Unescape(_escape_cmd(cmd)) = cmd
        /\ \A y \in EscCommands : _escape_cmd(y) = _escape_cmd(cmd) => y = cmd

C7_Witness ==
    /\ cmd = <<27, 43, 65>>
    /\ send = <<27, 27, 27, 43, 65, 10>>
    /\ Unescape(<<27, 27, 27, 43, 65>>) = cmd

\* ------------------------------------------------------------ C8
\* the reserved bytes as the specification lists them: LF, CR, ESC, '+'
SpecReserved == {10, 13, 27, 43}

\* the number of reserved bytes among the first k bytes of text
RECURSIVE ReservedBefore(_, _)
ReservedBefore(text, k) ==
    IF k = 0 THEN 0
    ELSE (IF text[k] \in SpecReserved THEN 1 ELSE 0) + ReservedBefore(text, k - 1)

\* C8: the buffer send_command writes is the command with every reserved
\* byte preceded by ESC, the other bytes unchanged and in order, then one
\* LF; its length is len(command) + number of reserved bytes + 1.
C8_Framing ==
    (calls # <<>> /\ calls[Len(calls)].op = "send_command") =>
        /\ Len(send) = Len(cmd) + ReservedBefore(cmd, Len(cmd)) + 1
        /\ send[Len(send)] = 10
        /\ \A i \in 1..Len(cmd) :
              LET at == i + ReservedBefore(cmd, i - 1)
              IN  IF cmd[i] \in SpecReserved
                  THEN send[at] = 27 /\ send[at + 1] = cmd[i]
                  ELSE send[at] = cmd[i]

C8_Witness ==
    /\ calls = <<Call("send_command", 5)>>
    /\ wire = Startup \o <<Line("++addr", 5), CommandLine>>
    /\ cmd = <<65, 43, 10>>
    /\ send = <<65, 27, 43, 27, 10, 10>>

\* ------------------------------------------------------------ C9
\* C9: the receive timeout is the primary one whenever no read is at its
\* secondary recv: between calls, in the main loop, after a return; the
\* fast timeout is in force only at the recv that follows a marker byte.
C9_TimeoutRestored ==
    /\ pc \in {"idle", "query", "main"} => timeout = TIMEOUT
    /\ timeout = FAST_TIMEOUT =>
          /\ pc = "sec"
          /\ rx # <<>>
          /\ rx[Len(rx)] = Recv("main", <<Marker>>)

\* a read that went through a false-positive marker and then returned
C9_Witness ==
    /\ pc = "idle"
    /\ outcome = "return"
    /\ \E i \in 1..Len(rx) : rx[i].win = "sec" /\ IsByte(rx[i])
    /\ timeout = TIMEOUT

\* ------------------------------------------------------------ C10
\* C10: a recv timeout in the main loop writes ++read eoi and stays in the
\* loop; a recv timeout in the secondary window returns normally; no call
\* ends with TimeoutError.
C10_Step ==
    (nrecv' = nrecv + 1 /\ rx'[Len(rx')].ev = "timeout") =>
        IF timeout = TIMEOUT
        THEN wire' = Append(wire, ReadEoi) /\ pc' = "main" /\ outcome' = "none"
        ELSE pc' = "idle" /\ outcome' = "return" /\ result' = StripLast(received_data)

C10_TimeoutsNotSurfaced == [][C10_Step]_vars /\ [](outcome # "TimeoutError")

C10_Witness ==
    /\ outcome = "return"
    /\ Len(rx) >= 3
    /\ rx[1] = Timeouted("main")
    /\ rx[Len(rx)] = Timeouted("sec")

\* ------------------------------------------------------------ C11
\* the bytes the read in progress has taken from the socket, in order
RECURSIVE Consumed(_)
Consumed(r) ==
    IF r = <<>> THEN <<>> ELSE Head(r).ch \o Consumed(Tail(r))

ReadReturned ==
    /\ calls # <<>>
    /\ calls[Len(calls)].op = "read_until_eoi"
    /\ outcome = "return"

\* C11: read_until_eoi returns only when the last byte it took from the
\* socket is the marker and the recv right after it, in the secondary
\* window, timed out; what it returns is every byte it took during this
\* call, in order, without that final marker.
C11_NoPartialResult ==
    ReadReturned =>
        /\ Len(rx) >= 2
        /\ rx[Len(rx)] = Timeouted("sec")
        /\ IsByte(rx[Len(rx) - 1])
        /\ rx[Len(rx) - 1].ch = <<Marker>>
        /\ result \o <<Marker>> = Consumed(rx)

\* a read that returned after a stall and a false-positive marker
C11_Witness ==
    /\ ReadReturned
    /\ rx[1] = Timeouted("main")
    /\ Len(rx) = 5
    /\ result = <<Marker, 65>>

\* ------------------------------------------------------------ C12
\* C12: as long as every recv of a read has timed out, the read is still in
\* its main loop, has neither returned nor raised, and has written
\* ++read eoi once at its start and once more for each timeout.
OnlyTimeouts ==
    /\ calls # <<>>
    /\ calls[Len(calls)].op = "read_until_eoi"
    /\ \A i \in 1..Len(rx) : rx[i].ev = "timeout"

C12_UnboundedRetry ==
    OnlyTimeouts =>
        /\ pc = "main"
        /\ outcome = "none"
        /\ result = <<>>
        /\ CountLines(CallLines, ReadEoi) = Len(rx) + 1

C12_Witness ==
    /\ OnlyTimeouts
    /\ Len(rx) = MaxRx
    /\ pc = "main"
    /\ CountLines(CallLines, ReadEoi) = MaxRx + 1

\* ------------------------------------------------------------ C13
StartupDirectives == {"++auto", "++eos", "++eot_enable", "++eot_char"}

\* C13: a created session has written ++auto 0, ++eos 2, ++eot_enable 1,
\* ++eot_char 123, in this order, as the first four lines on the wire, and
\* no later line is one of these directives; before creation nothing is
\* written.
C13_StartupSequence ==
    /\ pc \in {"new", "failed"} => wire = <<>>
    /\ pc \notin {"new", "failed"} =>
          /\ Len(wire) >= 4
          /\ SubSeq(wire, 1, 4) = << [dir |-> "++auto", arg |-> 0],
                                     [dir |-> "++eos", arg |-> 2],
                                     [dir |-> "++eot_enable", arg |-> 1],
                                     [dir |-> "++eot_char", arg |-> 123] >>
          /\ \A i \in 5..Len(wire) : wire[i].dir \notin StartupDirectives

\* a send, then a query whose read stalled once, on another address
C13_Witness ==
    /\ Len(calls) = 3
    /\ query.active
    /\ Len(wire) = 10
    /\ CountDir(wire, "++addr") = 2

\* ------------------------------------------------------------ C14
\* C14: when the threads take the lock for the length of each call, no
\* thread ever writes a command line or a ++read eoi while the bridge has
\* another address than its target selected.  (Without the lock such a
\* write is reachable: C14_Race.)
C14_SerializedIsSafe ==
    lock # "none" => \A t \in Threads : ~tasks[t].bad

\* without the lock: a thread has written its line to the wrong address
C14_Race ==
    /\ lock = "none"
    /\ \E t \in Threads : tasks[t].bad

\* ------------------------------------------------------------ C15
\* the lines written since the query began
QueryLines == SubSeq(wire, query.start + 1, Len(wire))

\* C15: a query on a handle with address a is send_command(command, a) run
\* to its return followed by read_until_eoi(a), whose result is the query's;
\* the one command line precedes every ++read eoi, and at most one ++addr is
\* written for the whole query.
C15_QueryOrdering ==
    query.active =>
        /\ CountDir(QueryLines, "++addr") <= 1
        /\ CountLines(QueryLines, CommandLine) = 1
        /\ \A i \in 1..Len(QueryLines) :
               QueryLines[i] = ReadEoi =>
                   \E j \in 1..(i - 1) : QueryLines[j] = CommandLine
        /\ \A i \in 1..Len(QueryLines) :
               QueryLines[i].dir = "++addr" => i = 1 /\ QueryLines[i].arg = query.addr
        /\ pc = "query" =>
               /\ calls[Len(calls)] = Call("send_command", query.addr)
               /\ outcome = "return"
               /\ send = _escape_cmd(cmd) \o <<LF>>
               /\ CountLines(QueryLines, ReadEoi) = 0
        /\ pc # "query" =>
               /\ Len(calls) >= 2
               /\ calls[Len(calls) - 1] = Call("send_command", query.addr)
               /\ calls[Len(calls)] = Call("read_until_eoi", query.addr)
               /\ CallLines = SubSeq(QueryLines, Len(QueryLines) - Len(CallLines) + 1, Len(QueryLines))
               /\ CallLines[1] = ReadEoi
               /\ (outcome = "return" => result = StripLast(received_data))

\* a query to a newly selected address has returned the bytes of its read
C15_Witness ==
    /\ query.active
    /\ pc = "idle"
    /\ outcome = "return"
    /\ result = <<65>>
    /\ QueryLines[1] = Line("++addr", query.addr)
    /\ Len(calls) = 2

\* ------------------------------------------------------------ C16
\* what the session is asked by a step that is a call through handle h
Forwarded(h, op) ==
    /\ calls' = Append(calls, Call(op, h.addr))
    /\ current_addr' = h.addr
    /\ \A i \in (Len(wire) + 1)..Len(wire') :
           wire'[i].dir = "++addr" => wire'[i].arg = h.addr
    /\ devices' = devices

\* (every call on a handle appends to calls: the other steps are not looked
\* at; the text of a send is the one the step leaves in cmd)
C16_Step ==
    /\ calls' # calls =>
           /\ \A h \in devices :
                  PrologixDevice_send_command(h, cmd') =>
                      Forwarded(h, "send_command") /\ cmd' \in Commands
           /\ \A h \in devices :
                  PrologixDevice_read_until_eoi(h) => Forwarded(h, "read_until_eoi")
           /\ \A h \in devices :
                  PrologixDevice_query(h, cmd') =>
                      Forwarded(h, "send_command") /\ cmd' \in Commands /\ query'.addr = h.addr
           /\ QueryRead =>
                  /\ query' = query
                  /\ \E h \in devices : h.addr = query.addr /\ Forwarded(h, "read_until_eoi")
    /\ devices \subseteq devices'
    /\ devices' \subseteq AllDevices

\* C16: a send_command, read_until_eoi or query on a handle made by device(a)
\* asks the session for exactly that operation with target a, and no step
\* changes or removes a handle.
C16_HandleForwarding == [][C16_Step]_vars

\* both handles exist and have been used: a send on one, a query on the other
C16_Witness ==
    /\ devices = AllDevices
    /\ calls = <<Call("send_command", 2), Call("send_command", 5), Call("read_until_eoi", 5)>>
    /\ query.active
    /\ query.addr = 5
    /\ outcome = "return"

\* ------------------------------------------------------------ C17
\* current_addr changes only in a step that writes the matching ++addr
C17_Step ==
    current_addr' # current_addr =>
        \E i \in (Len(wire) + 1)..Len(wire') : wire'[i] = Line("++addr", current_addr')

\* current_addr is the sentinel while no ++addr has been written and the
\* address of the last ++addr otherwise; after a call it is the call's target
C17_Tracked ==
    /\ current_addr = Selected(wire)
    /\ current_addr = NO_ADDR <=> CountDir(wire, "++addr") = 0
    /\ calls # <<>> => current_addr = calls[Len(calls)].addr

\* C17: current_addr changes only in the addressing step that writes the
\* matching ++addr directive; it is -1 while no ++addr has been written and
\* the address of the most recent ++addr otherwise, and after a
\* send_command(addr) or read_until_eoi(addr) it is addr.
C17_SelectedAddressTracking == [][C17_Step]_vars /\ []C17_Tracked

\* the selection has gone 5, 2, 5: two calls changed it, one read kept it
C17_Witness ==
    /\ pc = "idle"
    /\ calls = <<Call("send_command", 5), Call("read_until_eoi", 2), Call("send_command", 5)>>
    /\ CountDir(wire, "++addr") = 3
    /\ current_addr = 5

\* ------------------------------------------------------------ C18
\* the step is a send_command (a handle's, or the send of a query, included)
IsSendStep ==
    /\ Len(calls') = Len(calls) + 1
    /\ calls'[Len(calls')].op = "send_command"

C18_Step ==
    IsSendStep =>
        /\ nrecv' = nrecv
        /\ rx' = <<>>
        /\ timeout' = timeout
        /\ devices' = devices
        /\ \A i \in 1..Len(log') : log'[i].tag = "Send to"
        /\ \E k \in {1, 2} :
               /\ Len(wire') = Len(wire) + k
               /\ SubSeq(wire', 1, Len(wire)) = wire
               /\ wire'[Len(wire')] = CommandLine
               /\ k = 2 => /\ wire'[Len(wire) + 1] = Line("++addr", current_addr')
                           /\ current_addr' # current_addr
               /\ k = 1 => current_addr' = current_addr

\* C18: send_command performs no receive; it leaves the receive timeout
\* untouched, writes only its command line (after a ++addr when the address
\* changes), and the only session state it may change is current_addr.
C18_SendConsumesNothing == [][C18_Step]_vars

\* a send that returned after a read had been receiving
C18_Witness ==
    /\ pc = "idle"
    /\ Len(calls) = 2
    /\ calls[1].op = "read_until_eoi"
    /\ calls[2] = Call("send_command", 2)
    /\ calls[1].addr # 2
    /\ nrecv = 3
    /\ timeout = TIMEOUT

\* ------------------------------------------------------------ C19
\* the data of the log's write records with the given tag, in order
RECURSIVE Written(_, _)
Written(l, tag) ==
    IF l = <<>> THEN <<>>
    ELSE (IF Head(l).kind = "write" /\ Head(l).tag = tag THEN <<Head(l).data>> ELSE <<>>)
         \o Written(Tail(l), tag)

RECURSIVE Flatten(_)
Flatten(ss) == IF ss = <<>> THEN <<>> ELSE Head(ss) \o Flatten(Tail(ss))

\* every line written since the log was last empty has its write record
SentLogged == Len(Written(log, "Send to")) = Len(CallLines)

\* every byte received by the current read has its write record
ReceivedLogged == Flatten(Written(log, "Recv from")) = Consumed(rx)

\* C19: every byte the session writes to the transport (startup directives,
\* ++addr, ++read eoi, command buffers) and every byte it receives is
\* recorded in the diagnostic log.
C19_EveryByteLogged == SentLogged /\ ReceivedLogged

\* ------------------------------------------------------------ C20
\* the constructor raised: nothing was written, configured or logged, there
\* is no handle, and no call was made
C20_NothingCreated ==
    /\ wire = <<>>
    /\ timeout = BLOCKING
    /\ log = <<>>
    /\ devices = {}
    /\ calls = <<>>
    /\ current_addr = NO_ADDR
    /\ ~query.active

\* C20: when connect fails the error is raised to the caller at once; no
\* configuration directive is written, nothing of a session exists afterwards,
\* and no step follows (no retry, no operation on a session).
C20_FailedConnectIsFatal ==
    /\ [](outcome = "OSError" <=> pc = "failed")
    /\ [](pc = "failed" => C20_NothingCreated)
    /\ [][pc # "failed"]_vars

C20_Witness ==
    /\ pc = "failed"
    /\ outcome = "OSError"
    /\ wire = <<>>

\* ------------------------------------------------------------ C21
\* the number of main-loop timeouts among the recv outcomes
RECURSIVE MainTimeouts(_)
MainTimeouts(r) ==
    IF r = <<>> THEN 0
    ELSE (IF Head(r) = Timeouted("main") THEN 1 ELSE 0) + MainTimeouts(Tail(r))

\* the socket stalls in mid-response: the recv outcomes are bytes and
\* timeouts, at least one timeout comes after a byte and before the end, no
\* such timeout comes directly after a marker byte, and the outcomes end
\* with a marker byte followed by a timeout
StallMidResponse ==
    /\ Len(rx) >= 4
    /\ \A i \in 1..Len(rx) : IsByte(rx[i]) \/ rx[i].ev = "timeout"
    /\ IsByte(rx[Len(rx) - 1])
    /\ rx[Len(rx) - 1].ch = <<Marker>>
    /\ rx[Len(rx)].ev = "timeout"
    /\ \E i \in 2..(Len(rx) - 2) :
           rx[i].ev = "timeout" /\ \E j \in 1..(i - 1) : IsByte(rx[j])
    /\ \A i \in 2..(Len(rx) - 1) :
           rx[i].ev = "timeout" => ~(IsByte(rx[i - 1]) /\ rx[i - 1].ch = <<Marker>>)

\* C21: when the socket stalls in mid-response, read_until_eoi has returned
\* the complete payload (every byte delivered but the last marker) and has
\* written ++read eoi once plus once for each main-loop timeout.
C21_StallMidResponse ==
    StallMidResponse =>
        /\ Returned(StripLast(Consumed(rx)))
        /\ CountLines(CallLines, ReadEoi) = 1 + MainTimeouts(rx)

\* ------------------------------------------------------------ C22
IsRecvRecord(e) == e.kind = "write" /\ e.tag = "Recv from"

\* the log's records of received data, in the order they were written
RecvRecords == SelectSeq(log, IsRecvRecord)

InRead == calls # <<>> /\ calls[Len(calls)].op = "read_until_eoi"

\* C22: the bytes a read_until_eoi has taken from the socket, the byte of
\* the secondary window and the final marker included, are in the log once
\* each, one to a record, in the order received, every record tagged with
\* the read's target address.
C22_ReceivedByteLogging ==
    InRead =>
        /\ Flatten([i \in 1..Len(RecvRecords) |-> RecvRecords[i].data]) = Consumed(rx)
        /\ \A i \in 1..Len(RecvRecords) :
               /\ Len(RecvRecords[i].data) <= 1
               /\ RecvRecords[i].addr = calls[Len(calls)].addr
        /\ Len(RecvRecords) = Len(SelectSeq(rx, LAMBDA e : e.ev = "recv"))

\* a read after a change of address took a marker, a byte in the secondary
\* window and the final marker, and returned
C22_Witness ==
    /\ ReadReturned
    /\ Len(calls) = 2
    /\ calls[1].addr # calls[2].addr
    /\ Consumed(rx) = <<65, Marker, 65, Marker>>
    /\ Len(RecvRecords) = 4

\* ------------------------------------------------------------ C23
\* the bridge's line parser, reading buf from the left: the byte at i is
\* taken literally when the byte before it is an ESC that is not itself
\* taken literally
RECURSIVE Escaped(_, _)
Escaped(buf, i) ==
    IF i <= 1 THEN FALSE
    ELSE buf[i - 1] = 27 /\ ~Escaped(buf, i - 1)

\* the positions where the parser ends a line, and where it sees a '+'
LineEnds(buf) == {i \in 1..Len(buf) : buf[i] \in {10, 13} /\ ~Escaped(buf, i)}
BarePlus(buf) == {i \in 1..Len(buf) : buf[i] = 43 /\ ~Escaped(buf, i)}

\* C23: in the buffer send_command writes, every LF, CR, ESC and '+' of the
\* command is taken literally by the bridge (an ESC prefix precedes it), the
\* only line end is the final LF, and no '+' is left for the bridge to read
\* as the start of a directive: one line for each send, none of it a
\* directive.
C23_NoDirectiveInjection ==
    (calls # <<>> /\ calls[Len(calls)].op = "send_command") =>
        /\ LineEnds(send) = {Len(send)}
        /\ send[Len(send)] = 10
        /\ BarePlus(send) = {}
        /\ \A i \in 1..Len(send) :
               (send[i] = 27 /\ ~Escaped(send, i)) =>
                   i < Len(send) /\ send[i + 1] \in SpecReserved /\ Escaped(send, i + 1)
        /\ \A i \in 1..(Len(send) - 1) :
               ~Escaped(send, i) => send[i] \notin {10, 13, 43}
        /\ Cardinality({i \in 1..Len(send) : Escaped(send, i)}) = ReservedBefore(cmd, Len(cmd))

\* the command "++" and a line end: the buffer has no bare '+' and one line end
C23_Witness ==
    /\ calls # <<>>
    /\ cmd = <<43, 43, 10>>
    /\ send = <<27, 43, 27, 43, 27, 10, 10>>
    /\ LineEnds(send) = {7}

\* ------------------------------------------------------------ C24
\* the last call was left by the exception of the ++addr send
SelectRaised == calls # <<>> /\ outcome = "SendError"

\* nothing of the failed call is on the wire and current_addr is what it was
C24_Unchanged ==
    SelectRaised =>
        /\ CallLines = <<>>
        /\ send = <<>>
        /\ log = <<>>
        /\ current_addr # calls[Len(calls)].addr
        /\ current_addr = Selected(wire)
        /\ pc = "idle"

\* the call after it to the same address that gets through selects first
C24_Step ==
    (SelectRaised /\ Len(calls') = Len(calls) + 1
                  /\ calls'[Len(calls')].addr = calls[Len(calls)].addr) =>
        \/ /\ outcome' = "SendError"
           /\ wire' = wire
           /\ current_addr' = current_addr
        \/ /\ Len(wire') = Len(wire) + 2
           /\ wire'[Len(wire) + 1] = Line("++addr", calls[Len(calls)].addr)
           /\ current_addr' = calls[Len(calls)].addr

\* C24: when the send of the ++addr directive raises, current_addr keeps its
\* value and neither the command buffer nor ++read eoi of that call is
\* written; the next call to that address writes ++addr again.
C24_FailedSelect == []C24_Unchanged /\ [][C24_Step]_vars

\* send(5) failed at its select, then send(5) went through: one ++addr
C24_Witness ==
    /\ calls = <<Call("send_command", 5), Call("send_command", 5)>>
    /\ wire = Startup \o <<Line("++addr", 5), CommandLine>>
    /\ outcome = "return"
    /\ current_addr = 5

\* ------------------------------------------------------------ C25
\* the read was left by the error of line 92, nothing returned, the timeout
\* the primary one
EndedWithError ==
    /\ pc = "idle"
    /\ outcome = "IndexError"
    /\ result = <<>>
    /\ timeout = TIMEOUT
    /\ rx[Len(rx)] = Recv("main", <<>>)

\* b'' came in the secondary window: the read is back at line 83 with the
\* primary timeout, about to receive b'' again
BackInMainLoop ==
    /\ pc = "main"
    /\ outcome = "none"
    /\ timeout = TIMEOUT
    /\ rx[Len(rx)] = Recv("sec", <<>>)

C25_Closed == (InRead /\ PeerClosed) => (EndedWithError \/ BackInMainLoop)

C25_Step == (InRead /\ PeerClosed /\ pc = "main") => EndedWithError'

\* C25: when a recv of read_until_eoi returns b'', the read ends with an
\* error (at that recv in the main loop, at the next recv when it was the
\* one of the secondary window); it returns nothing, receives nothing more,
\* and the timeout is the primary one when the error leaves the call.
C25_EndOfStream == []C25_Closed /\ [][C25_Step]_vars

\* the connection was closed in the secondary window, after a payload byte
\* and a marker had been accumulated
C25_Witness ==
    /\ InRead
    /\ Len(rx) = 4
    /\ rx[3] = Recv("sec", <<>>)
    /\ received_data = <<65, Marker>>
    /\ EndedWithError

\* ------------------------------------------------------------ C26
\* the commands of the latest call that are for one port
PortLines == SelectSeq(psu.lines, LAMBDA l : ~IsSelection(l))

\* C26: after a call that completed without error, current_port is the port
\* named by the most recent selection command; a selection command was sent
\* for a port command exactly when the port asked for differed from
\* current_port; and every port command reached the instrument while it had
\* the port asked for selected.
C26_PortTracking ==
    (psu.pc = "ready" /\ psu.outcome = "return" /\ psu.op # "__init__") =>
        /\ psu.current_port = psu.last_sel
        /\ \A i \in 1..Len(psu.lines) :
               LET l == psu.lines[i]
               IN  IF IsSelection(l)
                   THEN /\ l.want # l.before
                        /\ i < Len(psu.lines)
                        /\ ~IsSelection(psu.lines[i + 1])
                        /\ psu.lines[i + 1].want = l.want
                   ELSE /\ l.at = l.want
                        /\ l.want # l.before => i > 1 /\ IsSelection(psu.lines[i - 1])

\* ------------------------------------------------------------ C27
AskedUnsupported ==
    /\ psu.pc = "ready"
    /\ psu.op \in {"output_on", "output_off", "set_voltage", "set_current"}
    /\ ~has_port(psu.variant, psu.port)

\* C27: a call of output_on, output_off, set_voltage or set_current for a
\* port the variant does not have (has_port is false) has raised ValueError,
\* has sent nothing and has left current_port as it was.
C27_UnsupportedPort ==
    AskedUnsupported =>
        /\ psu.outcome = "ValueError"
        /\ psu.lines = <<>>
        /\ psu.current_port = psu.before

====
